---- MODULE Spec2Model ----
(***************************************************************************)
(* Bandwidth accounting of anycrawl's scrape package:                      *)
(*   - BandwidthManager (packages/scrape/src/managers/Bandwidth.ts): the   *)
(*     per-job pending TrafficDelta map, recordRequest, flushJob, flushAll *)
(*     and persist with its merge-back on failure;                         *)
(*   - getOrCreateBandwidthTracker (the CDP tracker): the per-page memo    *)
(*     table, the attachment handshake and the six network event handlers. *)
(*                                                                         *)
(* One step of the model is one uninterrupted run of JavaScript: a         *)
(* synchronous call, or the part of an async function between two awaits.  *)
(***************************************************************************)
EXTENDS Integers, Sequences, FiniteSets

---------------------------------------------------------------------------
(* Bounds of the exploration                                               *)

\* recordRequest calls made directly on the manager
MaxRecords == 3
\* addJobTraffic calls started in one behaviour
MaxPersistCalls == 3
\* <<requestBytes, responseBytes, totalBytes>> of the metrics a direct caller
\* records for a job
DirectBytes == {<<1, 2, 3>>}

\* hops opened per transport id by one tracker
MaxHops == 2
\* getOrCreateBandwidthTracker calls started in one behaviour
MaxAttachCalls == 3
\* responseBytes a hop accumulates from data-received events
MaxResponseBytes == 10
\* addJobTraffic calls that fail before the persistence outage ends
MaxFailures == 2
\* metrics recorded before recording stops, under the timer
MaxLiveRecords == 2

\* job identifiers handed to setJobContext / carried by metrics
JobIds == {"J1", "J2"}
\* the empty string: a jobId that JavaScript treats as falsy
EmptyJob == ""

---------------------------------------------------------------------------
(* TrafficDelta and the pending Map                                        *)

\* Bandwidth.ts:12-17
createEmptyDelta ==
    [totalBytes |-> 0, requestBytes |-> 0, responseBytes |-> 0, requestCount |-> 0]

\* A JavaScript Map<string, TrafficDelta> is modelled as the sequence of its
\* entries in insertion order (the order Map.entries() yields); keys are distinct.
MapKeys(m) == {m[i].jobId : i \in 1..Len(m)}

MapHas(m, k) == k \in MapKeys(m)

MapIndex(m, k) == CHOOSE i \in 1..Len(m) : m[i].jobId = k

\* Map.get(k) ?? createEmptyDelta()
MapGetOrEmpty(m, k) == IF MapHas(m, k) THEN m[MapIndex(m, k)].delta ELSE createEmptyDelta

\* Map.set(k, v): an existing key keeps its position, a new key is appended
MapSet(m, k, v) ==
    IF MapHas(m, k)
    THEN [m EXCEPT ![MapIndex(m, k)] = [jobId |-> k, delta |-> v]]
    ELSE Append(m, [jobId |-> k, delta |-> v])

\* Map.delete(k)
MapDelete(m, k) ==
    IF MapHas(m, k)
    THEN [i \in 1..(Len(m) - 1) |-> IF i < MapIndex(m, k) THEN m[i] ELSE m[i + 1]]
    ELSE m

VARIABLES
    pendingByJobId,   \* Bandwidth.ts:21  Map jobId -> TrafficDelta (entries in insertion order)
    flushRunning,     \* Bandwidth.ts:23
    inflight,         \* addJobTraffic calls that have not returned yet, in call order
    cycles,           \* number of flushAll cycles started so far
    accepted,         \* history: per job, sum of the metrics recordRequest accepted
    persisted,        \* history: per job, sum of the deltas addJobTraffic stored
    handed,           \* history: number of addJobTraffic calls started
    owed,             \* history: per job, the earliest persistence failure not yet
                      \*   followed by a successful later flush of that job
    records,          \* history: number of direct recordRequest calls
    failures,         \* history: number of addJobTraffic calls that failed
    cycleFailed,      \* history: an addJobTraffic call of the running cycle failed
    cycleRejected,    \* Bandwidth.ts:68  Promise.all of the running cycle has rejected
    op,               \* history: the operation the last step ran
    trackers,         \* tracker:36  the WeakMap's entry for the page: a tracker or NoTracker
    pc,               \* per caller: where its getOrCreateBandwidthTracker call stands
    result,           \* per caller: what its last call returned
    subscribed,       \* the trackers whose handlers are registered on their CDP client,
                      \*   in order of registration
    closure,          \* tracker:84-88  per tracker: currentJobId, activeRequestId,
                      \*   hopIndexByRequestId, metrics
    finalized,        \* history: what finalizeHop passed to recordRequest, in order: per
                      \*   metric its id, jobId, failed, its two byte counts, whether
                      \*   totalBytes was the sum of its two byte counts, and whether
                      \*   it was positive
    hist,             \* history: per tracker and transport id, the shape of its events
    everSet,          \* history: per tracker, whether setJobContext was ever called
    alone,            \* history: per tracker and transport id, the closure and the
                      \*   finalized metrics of a tracker with the same job context
                      \*   that is given the events of this transport id only
    attachCalls       \* history: number of getOrCreateBandwidthTracker calls started

aggVars == <<pendingByJobId, flushRunning, inflight, cycles, accepted, persisted,
             handed, owed, records, failures, cycleFailed, cycleRejected>>

attachVars == <<trackers, pc, result, subscribed, attachCalls>>

trackVars == <<closure, finalized, hist, everSet, alone>>

vars == <<aggVars, attachVars, trackVars, op>>

---------------------------------------------------------------------------
(* BandwidthManager                                                        *)

\* a JavaScript truthiness test of a jobId (Bandwidth.ts:44, tracker:108)
Truthy(jobId) == jobId # EmptyJob /\ jobId # "<null>"

\* the four "+=" of Bandwidth.ts:86-89
AddDelta(current, delta) ==
    [totalBytes    |-> current.totalBytes + delta.totalBytes,
     requestBytes  |-> current.requestBytes + delta.requestBytes,
     responseBytes |-> current.responseBytes + delta.responseBytes,
     requestCount  |-> current.requestCount + delta.requestCount]

\* what one metric contributes to a delta (Bandwidth.ts:47-50)
MetricDelta(metric) ==
    [totalBytes    |-> metric.totalBytes,
     requestBytes  |-> metric.requestBytes,
     responseBytes |-> metric.responseBytes,
     requestCount  |-> 1]

\* recordRequest without the totalBytes filter of Bandwidth.ts:44
recordRequestUnfiltered(pending, metric) ==
    IF ~Truthy(metric.jobId)
    THEN pending
    ELSE MapSet(pending, metric.jobId,
                AddDelta(MapGetOrEmpty(pending, metric.jobId), MetricDelta(metric)))

\* recordRequest with "< 0" for "<= 0" in the filter of Bandwidth.ts:44
recordRequestAcceptsZero(pending, metric) ==
    IF ~Truthy(metric.jobId) \/ metric.totalBytes < 0
    THEN pending
    ELSE MapSet(pending, metric.jobId,
                AddDelta(MapGetOrEmpty(pending, metric.jobId), MetricDelta(metric)))

\* Bandwidth.ts:43-52: the pending map after recordRequest(metric)
recordRequest(pending, metric) ==
    IF ~Truthy(metric.jobId) \/ metric.totalBytes <= 0
    THEN pending
    ELSE MapSet(pending, metric.jobId,
                AddDelta(MapGetOrEmpty(pending, metric.jobId), MetricDelta(metric)))

\* a persist whose skip test is off by one: a delta of one byte is dropped
persistSkipsSmall(calls, jobId, delta, cycle) ==
    IF delta.totalBytes <= 1
    THEN calls
    ELSE Append(calls, [jobId |-> jobId, delta |-> delta, cycle |-> cycle])

\* Bandwidth.ts:74-82: persist(jobId, delta) up to its await: the addJobTraffic
\* call is started unless the delta has nothing to persist
persist(calls, jobId, delta, cycle) ==
    IF delta.totalBytes <= 0
    THEN calls
    ELSE Append(calls, [jobId |-> jobId, delta |-> delta, cycle |-> cycle])

\* a catch block that only logs: the failed delta is dropped
persistCatchDrops(pending, jobId, delta) == pending

\* a catch block that sets the job's delta instead of adding to it
persistCatchOverwrites(pending, jobId, delta) == MapSet(pending, jobId, delta)

\* Bandwidth.ts:83-90: the catch block of persist
persistCatch(pending, jobId, delta) ==
    MapSet(pending, jobId, AddDelta(MapGetOrEmpty(pending, jobId), delta))

\* Bandwidth.ts:68: pending.map(([jobId, delta]) => this.persist(jobId, delta)),
\* the calls started in the order of the snapshot
RECURSIVE persistEach(_, _, _)
persistEach(calls, snapshot, cycle) ==
    IF snapshot = <<>>
    THEN calls
    ELSE persistEach(persist(calls, Head(snapshot).jobId, Head(snapshot).delta, cycle),
                     Tail(snapshot), cycle)

\* a flushJob that shares flushAll's re-entrancy guard
flushJobSkipsWhileRunning(running, pending, jobId) == running \/ ~MapHas(pending, jobId)

\* Bandwidth.ts:55-56: the early return of flushJob
flushJobSkips(running, pending, jobId) == ~MapHas(pending, jobId)

\* Bandwidth.ts:62-63: the two early returns of flushAll
flushAllSkips(running, pending) == running \/ Len(pending) = 0

\* what addJobTraffic may reject with: an Error, a Symbol, an object without
\* prototype (Object.create(null))
RejectionValues == {"Error", "Symbol", "NullProto"}
\* the call returned, nothing was thrown
NoError == "<none>"

\* Bandwidth.ts:91: the template literal converts the caught value to a string,
\* which throws a TypeError for a Symbol and for an object without toString
logThrows(error) == error \in {"Symbol", "NullProto"}

\* Bandwidth.ts:76-92: how the promise of persist settles when addJobTraffic
\* threw error or returned: the catch block merges and logs and does not
\* rethrow, but the log line of Bandwidth.ts:91 itself throws, after the merge,
\* when the caught value cannot be converted to a string
persistOutcome(threw, error) ==
    IF threw /\ logThrows(error) THEN "rejected" ELSE "fulfilled"

\* Bandwidth.ts:68-71: how the promise of flushAll settles: as Promise.all of
\* the persist promises of its cycle, rejected once one of them is rejected
\* (the timer of Bandwidth.ts:36 swallows the rejection, another caller sees it)
flushAllOutcome(rejected) == IF rejected THEN "rejected" ELSE "fulfilled"

\* a flushAll that resets its guard after the await instead of in a finally
\* block: the reset is skipped when Promise.all rejects
cycleSettledUnlessRejected(calls, cycle, rejected) ==
    ~rejected /\ \A i \in 1..Len(calls) : calls[i].cycle # cycle

\* Bandwidth.ts:68-71: Promise.all has settled and the finally block may run:
\* every persist promise of the cycle is fulfilled, or one of them is rejected,
\* whatever calls of the cycle are still in flight
cycleSettled(calls, cycle, rejected) ==
    rejected \/ \A i \in 1..Len(calls) : calls[i].cycle # cycle

RemoveAt(s, i) == [k \in 1..(Len(s) - 1) |-> IF k < i THEN s[k] ELSE s[k + 1]]

\* history bookkeeping: the sum per job
Credit(total, jobId, delta) == [total EXCEPT ![jobId] = AddDelta(@, delta)]

\* history bookkeeping of owed. before counts the calls at the head of inflight
\* that were started before the failure: call i was started after it iff i > before
NothingOwed == [active |-> FALSE, delta |-> createEmptyDelta, before |-> 0, drained |-> FALSE]

\* a metric accepted for jobId joins what is owed until the next drain of jobId
OwedAfterRecord(jobId, delta) ==
    IF owed[jobId].active /\ ~owed[jobId].drained
    THEN [owed EXCEPT ![jobId].delta = AddDelta(@, delta)]
    ELSE owed

\* the jobs in drainedJobs had their pending delta handed to persist
OwedAfterDrain(drainedJobs) ==
    [j \in JobIds |-> IF j \in drainedJobs /\ owed[j].active
                      THEN [owed[j] EXCEPT !.drained = TRUE]
                      ELSE owed[j]]

\* call i left inflight
OwedAfterReturn(ow, i) ==
    [j \in JobIds |-> IF ow[j].active /\ i <= ow[j].before
                      THEN [ow[j] EXCEPT !.before = @ - 1]
                      ELSE ow[j]]

\* call i failed: it becomes what is owed unless an earlier failure still is
OwedAfterReject(i) ==
    IF owed[inflight[i].jobId].active
    THEN OwedAfterReturn(owed, i)
    ELSE [OwedAfterReturn(owed, i) EXCEPT ![inflight[i].jobId] =
            [active |-> TRUE, delta |-> inflight[i].delta,
             before |-> Len(inflight) - 1, drained |-> FALSE]]

\* call i succeeded: a flush started after the failure answers it
OwedAfterResolve(i) ==
    IF owed[inflight[i].jobId].active /\ i > owed[inflight[i].jobId].before
    THEN [OwedAfterReturn(owed, i) EXCEPT ![inflight[i].jobId] = NothingOwed]
    ELSE OwedAfterReturn(owed, i)

\* metrics a direct caller may pass to recordRequest
Metric(jobId, requestBytes, responseBytes, totalBytes) ==
    [jobId |-> jobId, requestBytes |-> requestBytes, responseBytes |-> responseBytes,
     totalBytes |-> totalBytes]

\* well-formed metrics of both jobs, one without a job, an empty one and a
\* corrupt (negative) one
DirectMetrics ==
    {Metric(j, b[1], b[2], b[3]) : j \in JobIds, b \in DirectBytes}
        \cup {Metric(EmptyJob, 1, 2, 3), Metric("J1", 0, 0, 0), Metric("J2", 1, 0, -1)}

\* Bandwidth.ts:43-52, called by any producer of metrics
RecordRequest(metric) ==
    /\ records < MaxRecords
    /\ records' = records + 1
    /\ pendingByJobId' = recordRequest(pendingByJobId, metric)
    /\ accepted' = IF Truthy(metric.jobId) /\ metric.totalBytes > 0
                   THEN Credit(accepted, metric.jobId, MetricDelta(metric))
                   ELSE accepted
    /\ owed' = IF Truthy(metric.jobId) /\ metric.totalBytes > 0
               THEN OwedAfterRecord(metric.jobId, MetricDelta(metric))
               ELSE owed
    /\ op' = [name |-> "recordRequest", metric |-> metric]
    /\ UNCHANGED <<flushRunning, inflight, cycles, persisted, handed, failures,
                   cycleFailed, cycleRejected>>
    /\ UNCHANGED <<attachVars, trackVars>>

\* Bandwidth.ts:54-59, up to the await inside persist
flushJob(jobId) ==
    /\ IF flushJobSkips(flushRunning, pendingByJobId, jobId)
       THEN UNCHANGED <<pendingByJobId, inflight, handed, owed>>
       ELSE /\ pendingByJobId' = MapDelete(pendingByJobId, jobId)
            /\ inflight' = persist(inflight, jobId, MapGetOrEmpty(pendingByJobId, jobId), 0)
            /\ handed' = handed + (Len(inflight') - Len(inflight))
            /\ owed' = OwedAfterDrain({jobId})
    /\ op' = [name |-> "flushJob", jobId |-> jobId]
    /\ UNCHANGED <<flushRunning, cycles, accepted, persisted, records, failures,
                   cycleFailed, cycleRejected>>
    /\ UNCHANGED <<attachVars, trackVars>>

\* flushJob called while the exploration has calls left
FlushJob(jobId) == handed < MaxPersistCalls /\ flushJob(jobId)

\* Bandwidth.ts:61-68, up to the await of Promise.all; run by the interval timer
\* (Bandwidth.ts:35-37) or by an explicit caller
flushAll ==
    /\ IF flushAllSkips(flushRunning, pendingByJobId)
       THEN UNCHANGED <<pendingByJobId, flushRunning, inflight, cycles, handed, owed,
                        cycleFailed, cycleRejected>>
       ELSE /\ flushRunning' = TRUE
            /\ cycleFailed' = FALSE
            /\ cycleRejected' = FALSE
            /\ cycles' = cycles + 1
            /\ pendingByJobId' = <<>>
            /\ inflight' = persistEach(inflight, pendingByJobId, cycles + 1)
            /\ handed' = handed + (Len(inflight') - Len(inflight))
            /\ owed' = OwedAfterDrain(MapKeys(pendingByJobId))
    /\ op' = [name |-> "flushAll", skipped |-> flushAllSkips(flushRunning, pendingByJobId)]
    /\ UNCHANGED <<accepted, persisted, records, failures>>
    /\ UNCHANGED <<attachVars, trackVars>>

\* flushAll called while the exploration has calls left
FlushAll == handed + Len(pendingByJobId) <= MaxPersistCalls /\ flushAll

\* Bandwidth.ts:69-71: the finally block, once Promise.all has settled
FlushAllFinally ==
    /\ flushRunning
    /\ cycleSettled(inflight, cycles, cycleRejected)
    /\ flushRunning' = FALSE
    /\ op' = [name |-> "flushAllFinally", outcome |-> flushAllOutcome(cycleRejected)]
    /\ UNCHANGED <<pendingByJobId, inflight, cycles, accepted, persisted, handed, owed,
                   records, failures, cycleFailed, cycleRejected>>
    /\ UNCHANGED <<attachVars, trackVars>>

\* Bandwidth.ts:77-82: addJobTraffic call i returns normally
PersistResolves(i) ==
    /\ i \in 1..Len(inflight)
    /\ inflight' = RemoveAt(inflight, i)
    /\ persisted' = Credit(persisted, inflight[i].jobId, inflight[i].delta)
    /\ owed' = OwedAfterResolve(i)
    /\ op' = [name |-> "persistResolves", i |-> i, cycle |-> inflight[i].cycle,
              outcome |-> persistOutcome(FALSE, NoError)]
    /\ UNCHANGED <<pendingByJobId, flushRunning, cycles, accepted, handed, records,
                   failures, cycleFailed, cycleRejected>>
    /\ UNCHANGED <<attachVars, trackVars>>

\* the call belongs to the flushAll cycle whose Promise.all is awaited
OfRunningCycle(call) == flushRunning /\ call.cycle = cycles

\* Bandwidth.ts:83-92: addJobTraffic call i throws error
PersistRejects(i, error) ==
    /\ i \in 1..Len(inflight)
    /\ inflight' = RemoveAt(inflight, i)
    /\ pendingByJobId' = persistCatch(pendingByJobId, inflight[i].jobId, inflight[i].delta)
    /\ owed' = OwedAfterReject(i)
    /\ failures' = failures + 1
    /\ cycleFailed' = (cycleFailed \/ OfRunningCycle(inflight[i]))
    /\ cycleRejected' = (cycleRejected \/ (OfRunningCycle(inflight[i])
                                              /\ persistOutcome(TRUE, error) = "rejected"))
    /\ op' = [name |-> "persistRejects", i |-> i, cycle |-> inflight[i].cycle,
              outcome |-> persistOutcome(TRUE, error)]
    /\ UNCHANGED <<flushRunning, cycles, accepted, persisted, handed, records>>
    /\ UNCHANGED <<attachVars, trackVars>>

---------------------------------------------------------------------------
(* The CDP tracker (getOrCreateBandwidthTracker)                           *)

\* callers of getOrCreateBandwidthTracker for the one page; a tracker is named
\* after the caller whose call created it (its sessionId, tracker:81)
Callers == {"c1", "c2"}
NoTracker == "<none>"
\* transport ids (params.requestId)
RequestIds == {"r1", "r2"}
\* the transport id followed through its hops
ChainIds == {"r1"}
\* activeRequestId.get(requestId) of an absent key
NoMetric == <<>>
\* currentJobId before the first setJobContext (tracker:84)
NullJob == "<null>"

\* params.request of requestWillBeSent, strings given by their utf8 byte lengths;
\* throws marks a request whose serialisation raises inside estimateRequestBytes
PlainRequest ==
    [url |-> "u1", methodBytes |-> 3, urlBytes |-> 9, headers |-> << <<4, 1>> >>,
     postDataBytes |-> 0, throws |-> FALSE]
BrokenRequest == [PlainRequest EXCEPT !.throws = TRUE]
Requests == {PlainRequest, BrokenRequest}
\* byte length of params.headersText; 0 is an absent or empty headersText
HeadersTextBytes == {0, 40}
\* params.response of responseReceived; url "" is an absent response.url
Responses == {[status |-> 301, url |-> "u2", fromCache |-> TRUE]}
\* params.encodedDataLength of dataReceived and of loadingFinished; 0 also
\* stands for an absent value
DataLengths == {0, 5}
FinishedLengths == {0, 7}

\* a Map whose iteration order is never used is a function on its keys
EmptyMap == <<>>
FnSet(f, k, v) == [x \in DOMAIN f \cup {k} |-> IF x = k THEN v ELSE f[x]]
FnDelete(f, k) == [x \in DOMAIN f \ {k} |-> f[x]]
\* Map.get(k), NoMetric when absent
ActiveOf(active, requestId) ==
    IF requestId \in DOMAIN active THEN active[requestId] ELSE NoMetric

RECURSIVE SumHeaderLines(_)
SumHeaderLines(headers) ==
    IF headers = <<>>
    THEN 0
    ELSE (Head(headers)[1] + 2 + Head(headers)[2] + 2) + SumHeaderLines(Tail(headers))

\* tracker:40-54: bytes of "METHOD URL HTTP/1.1\r\n", one "k: v\r\n" per header,
\* "\r\n" and the body; 0 when anything throws
estimateRequestBytes(request) ==
    IF request.throws
    THEN 0
    ELSE (request.methodBytes + 1 + request.urlBytes + 9 + 2)
             + SumHeaderLines(request.headers) + 2 + request.postDataBytes

\* a hop counter that hands out the same index again
nextHopIndexStuck(hops, requestId) ==
    [index |-> IF requestId \in DOMAIN hops THEN hops[requestId] ELSE 0,
     hops |-> FnSet(hops, requestId, IF requestId \in DOMAIN hops THEN hops[requestId] ELSE 0)]

\* one hop counter shared by all transport ids
nextHopIndexShared(hops, requestId) ==
    LET current == IF "any" \in DOMAIN hops THEN hops["any"] ELSE 0
    IN  [index |-> current, hops |-> FnSet(hops, "any", current + 1)]

\* tracker:90-94
nextHopIndex(hops, requestId) ==
    LET current == IF requestId \in DOMAIN hops THEN hops[requestId] ELSE 0
    IN  [index |-> current, hops |-> FnSet(hops, requestId, current + 1)]

\* a finalizeHop that forgets to compute totalBytes
finalizeHopStaleTotal(metrics, metricId, failed) ==
    IF metricId = NoMetric \/ metricId \notin DOMAIN metrics
    THEN [metrics |-> metrics, out |-> <<>>]
    ELSE [metrics |-> FnDelete(metrics, metricId),
          out |-> <<FnSet(metrics[metricId], "failed", failed)>>]

\* a finalizeHop that ignores its failed argument
finalizeHopNeverFailed(metrics, metricId, failed) ==
    IF metricId = NoMetric \/ metricId \notin DOMAIN metrics
    THEN [metrics |-> metrics, out |-> <<>>]
    ELSE LET metric == metrics[metricId]
             final == FnSet(FnSet(metric, "failed", FALSE),
                            "totalBytes", metric.requestBytes + metric.responseBytes)
         IN  [metrics |-> FnDelete(metrics, metricId), out |-> <<final>>]

\* tracker:96-105: the open metrics afterwards and what recordRequest was given
\* (endTime is not modelled)
finalizeHop(metrics, metricId, failed) ==
    IF metricId = NoMetric \/ metricId \notin DOMAIN metrics
    THEN [metrics |-> metrics, out |-> <<>>]
    ELSE LET metric == metrics[metricId]
             final == FnSet(FnSet(metric, "failed", failed),
                            "totalBytes", metric.requestBytes + metric.responseBytes)
         IN  [metrics |-> FnDelete(metrics, metricId), out |-> <<final>>]

\* a handler without the job-context test
requestWillBeSentSkipsNever(cl) == FALSE

\* tracker:108
requestWillBeSentSkips(cl) == ~Truthy(cl.currentJobId)

\* tracker:107-131. Every handler maps the tracker's closure cl and the event's
\* params to the closure afterwards and the metrics passed to recordRequest.
requestWillBeSent(cl, params) ==
    IF requestWillBeSentSkips(cl)
    THEN [cl |-> cl, out |-> <<>>]
    ELSE LET requestId == params.requestId
             next == nextHopIndex(cl.hopIndexByRequestId, requestId)
             metricId == <<cl.sessionId, requestId, next.index>>
             fin == IF params.redirectResponse
                    THEN finalizeHop(cl.metrics, ActiveOf(cl.activeRequestId, requestId), FALSE)
                    ELSE [metrics |-> cl.metrics, out |-> <<>>]
             metric == [id |-> metricId,
                        jobId |-> cl.currentJobId,
                        url |-> params.request.url,
                        requestBytes |-> estimateRequestBytes(params.request),
                        responseBytes |-> 0,
                        totalBytes |-> 0]
         IN  [cl |-> [cl EXCEPT !.hopIndexByRequestId = next.hops,
                                !.activeRequestId = FnSet(@, requestId, metricId),
                                !.metrics = FnSet(fin.metrics, metricId, metric)],
              out |-> fin.out]

\* tracker:133-139
requestWillBeSentExtraInfo(cl, params) ==
    LET metricId == ActiveOf(cl.activeRequestId, params.requestId) IN
    IF metricId = NoMetric \/ params.headersTextBytes = 0 \/ metricId \notin DOMAIN cl.metrics
    THEN [cl |-> cl, out |-> <<>>]
    ELSE [cl |-> [cl EXCEPT !.metrics[metricId].requestBytes = params.headersTextBytes],
          out |-> <<>>]

\* tracker:141-148
responseReceived(cl, params) ==
    LET metricId == ActiveOf(cl.activeRequestId, params.requestId) IN
    IF metricId = NoMetric \/ metricId \notin DOMAIN cl.metrics
    THEN [cl |-> cl, out |-> <<>>]
    ELSE LET metric == cl.metrics[metricId]
             seen == FnSet(FnSet(FnSet(metric, "status", params.response.status),
                                 "url", IF params.response.url = ""
                                        THEN metric.url ELSE params.response.url),
                           "fromCache", params.response.fromCache)
         IN  [cl |-> [cl EXCEPT !.metrics = FnSet(@, metricId, seen)], out |-> <<>>]

\* tracker:150-155
dataReceived(cl, params) ==
    LET metricId == ActiveOf(cl.activeRequestId, params.requestId) IN
    IF metricId = NoMetric \/ metricId \notin DOMAIN cl.metrics
    THEN [cl |-> cl, out |-> <<>>]
    ELSE [cl |-> [cl EXCEPT !.metrics[metricId].responseBytes = @ + params.encodedDataLength],
          out |-> <<>>]

\* a loadingFinished that adds the event's total to the bytes already counted
loadingFinishedAddsTotal(responseBytes, encodedDataLength) ==
    responseBytes + encodedDataLength

\* tracker:161-163: the hop's responseBytes after loading-finished
loadingFinishedBytes(responseBytes, encodedDataLength) ==
    IF responseBytes = 0 THEN encodedDataLength ELSE responseBytes

\* a loadingFinished that leaves the transport id's active-hop entry in place
loadingFinishedKeeps(active, requestId) == active

\* tracker:165
loadingFinishedClears(active, requestId) == FnDelete(active, requestId)

\* tracker:157-166
loadingFinished(cl, params) ==
    LET requestId == params.requestId
        metricId == ActiveOf(cl.activeRequestId, requestId)
        open == metricId # NoMetric /\ metricId \in DOMAIN cl.metrics
        metrics == IF open
                   THEN [cl.metrics EXCEPT ![metricId].responseBytes =
                            loadingFinishedBytes(@, params.encodedDataLength)]
                   ELSE cl.metrics
        fin == finalizeHop(metrics, metricId, FALSE)
    IN  [cl |-> [cl EXCEPT !.metrics = fin.metrics,
                           !.activeRequestId = loadingFinishedClears(@, requestId)],
         out |-> fin.out]

\* a loadingFailed that leaves the transport id's active-hop entry in place
loadingFailedKeepsActive(cl, params) ==
    LET fin == finalizeHop(cl.metrics, ActiveOf(cl.activeRequestId, params.requestId), TRUE)
    IN  [cl |-> [cl EXCEPT !.metrics = fin.metrics], out |-> fin.out]

\* tracker:168-172
loadingFailed(cl, params) ==
    LET requestId == params.requestId
        fin == finalizeHop(cl.metrics, ActiveOf(cl.activeRequestId, requestId), TRUE)
    IN  [cl |-> [cl EXCEPT !.metrics = fin.metrics,
                           !.activeRequestId = FnDelete(@, requestId)],
         out |-> fin.out]

\* tracker:84-88: the closure of a tracker right after its creation
NewClosure(sessionId) ==
    [sessionId |-> sessionId, currentJobId |-> NullJob, activeRequestId |-> EmptyMap,
     hopIndexByRequestId |-> EmptyMap, metrics |-> EmptyMap]

RECURSIVE recordAll(_, _)
\* tracker:103 for each finalized metric in turn
recordAll(pending, out) ==
    IF out = <<>> THEN pending ELSE recordAll(recordRequest(pending, Head(out)), Tail(out))

\* history bookkeeping of accepted and owed for the metrics in out
RECURSIVE CreditAll(_, _)
CreditAll(total, out) ==
    IF out = <<>>
    THEN total
    ELSE CreditAll(IF Truthy(Head(out).jobId) /\ Head(out).totalBytes > 0
                   THEN Credit(total, Head(out).jobId, MetricDelta(Head(out)))
                   ELSE total,
                   Tail(out))

RECURSIVE OwedAll(_, _)
OwedAll(ow, out) ==
    IF out = <<>>
    THEN ow
    ELSE OwedAll(IF Truthy(Head(out).jobId) /\ Head(out).totalBytes > 0
                    /\ ow[Head(out).jobId].active /\ ~ow[Head(out).jobId].drained
                 THEN [ow EXCEPT ![Head(out).jobId].delta = AddDelta(@, MetricDelta(Head(out)))]
                 ELSE ow,
                 Tail(out))

\* history bookkeeping of hist: the shape of the events one tracker saw for one
\* transport id. none: no request-initiated yet; dropped: only request-initiated
\* events without a job context; open: one request-initiated with a job context,
\* then `redirects` redirect initiations, not finished yet; done: such a chain
\* ended by loading-finished (later stray events keep it done); other: the rest.
\* hopOpen: a request-initiated with a job context was seen and no loading-finished
\* or loading-failed since. dataSum: the byte lengths of the data-received events
\* since the last request-initiated with a job context, summed. job: the job
\* context at the last request-initiated that had one.
NoHist == [phase |-> "none", redirects |-> 0, hopOpen |-> FALSE, dataSum |-> 0,
           job |-> NullJob]

HistAfter(h, kind, redirect, jobOk) ==
    CASE kind = "init" /\ ~jobOk ->
            IF h.phase \in {"none", "dropped"}
            THEN [h EXCEPT !.phase = "dropped"] ELSE [h EXCEPT !.phase = "other"]
      [] kind = "init" /\ jobOk /\ ~redirect ->
            IF h.phase = "none"
            THEN [h EXCEPT !.phase = "open", !.redirects = 0, !.hopOpen = TRUE,
                           !.dataSum = 0]
            ELSE [h EXCEPT !.phase = "other", !.hopOpen = TRUE, !.dataSum = 0]
      [] kind = "init" /\ jobOk /\ redirect ->
            IF h.phase = "open"
            THEN [h EXCEPT !.redirects = @ + 1, !.dataSum = 0]
            ELSE [h EXCEPT !.phase = "other", !.hopOpen = TRUE, !.dataSum = 0]
      [] kind = "finished" ->
            IF h.phase = "open"
            THEN [h EXCEPT !.phase = "done", !.hopOpen = FALSE]
            ELSE [h EXCEPT !.hopOpen = FALSE]
      [] kind = "failed" ->
            IF h.phase = "open"
            THEN [h EXCEPT !.phase = "other", !.hopOpen = FALSE]
            ELSE [h EXCEPT !.hopOpen = FALSE]
      [] OTHER -> h

\* history bookkeeping of job for a request-initiated event
HistAfterInit(h, currentJobId) ==
    IF Truthy(currentJobId) THEN [h EXCEPT !.job = currentJobId] ELSE h

\* history bookkeeping of dataSum for a data-received event of dataLength bytes
HistAfterData(h, dataLength) ==
    IF h.hopOpen THEN [h EXCEPT !.dataSum = @ + dataLength] ELSE h

\* history bookkeeping of alone
NewAlone(sessionId) ==
    [r \in RequestIds |-> [cl |-> NewClosure(sessionId), final |-> <<>>]]

SubscribedSet == {subscribed[i] : i \in 1..Len(subscribed)}

\* the entry of the history finalized for a metric passed to recordRequest
RECURSIVE Logged(_)
Logged(out) ==
    IF out = <<>>
    THEN <<>>
    ELSE <<[id |-> Head(out).id, jobId |-> Head(out).jobId, failed |-> Head(out).failed,
            requestBytes |-> Head(out).requestBytes,
            responseBytes |-> Head(out).responseBytes,
            totalOk |-> Head(out).totalBytes
                            = Head(out).requestBytes + Head(out).responseBytes,
            positive |-> Head(out).totalBytes > 0]>> \o Logged(Tail(out))

AloneAfter(a, res) == [cl |-> res.cl, final |-> a.final \o Logged(res.out)]

\* the handler a tracker registered for the event called name
Handle(name, cl, params) ==
    CASE name = "requestWillBeSent" -> requestWillBeSent(cl, params)
      [] name = "requestWillBeSentExtraInfo" -> requestWillBeSentExtraInfo(cl, params)
      [] name = "responseReceived" -> responseReceived(cl, params)
      [] name = "dataReceived" -> dataReceived(cl, params)
      [] name = "loadingFinished" -> loadingFinished(cl, params)
      [] name = "loadingFailed" -> loadingFailed(cl, params)

\* tracker:77 and 107-172: every tracker has a CDP client of its own and its six
\* handlers are registered on that client. One network event dispatched by the
\* client of tracker t, whose handlers are registered: the handler t registered
\* for it runs, and no handler of another tracker runs with it.
Deliver(t, params, name, kind) ==
    LET res == Handle(name, closure[t], params)
    IN  /\ closure' = [closure EXCEPT ![t] = res.cl]
        /\ finalized' = finalized \o Logged(res.out)
        /\ pendingByJobId' = recordAll(pendingByJobId, res.out)
        /\ accepted' = CreditAll(accepted, res.out)
        /\ owed' = OwedAll(owed, res.out)
        /\ hist' = [hist EXCEPT ![t][params.requestId] =
                      IF name = "dataReceived"
                      THEN HistAfterData(@, params.encodedDataLength)
                      ELSE IF kind = "init"
                      THEN HistAfterInit(
                               HistAfter(@, kind, params.redirectResponse,
                                         Truthy(closure[t].currentJobId)),
                               closure[t].currentJobId)
                      ELSE HistAfter(@, kind, FALSE, Truthy(closure[t].currentJobId))]
        /\ alone' = [alone EXCEPT ![t][params.requestId] =
                        AloneAfter(@, Handle(name, @.cl, params))]
        /\ op' = CASE name = "loadingFinished" ->
                        [name |-> name, tracker |-> t, requestId |-> params.requestId,
                         encodedDataLength |-> params.encodedDataLength]
                   [] name = "requestWillBeSent" ->
                        [name |-> name, tracker |-> t, requestId |-> params.requestId,
                         redirectResponse |-> params.redirectResponse]
                   [] OTHER -> [name |-> name, tracker |-> t, requestId |-> params.requestId]
        /\ UNCHANGED <<flushRunning, inflight, cycles, persisted, handed, records,
                       failures, cycleFailed, cycleRejected>>
        /\ UNCHANGED <<attachVars, everSet>>

\* the hop index a tracker would hand out next for requestId
HopsOf(cl, requestId) ==
    IF requestId \in DOMAIN cl.hopIndexByRequestId THEN cl.hopIndexByRequestId[requestId] ELSE 0

\* tracker:107-131
RequestWillBeSent(t, requestId, redirectResponse, request) ==
    /\ t \in SubscribedSet
    /\ HopsOf(closure[t], requestId) < MaxHops
    /\ Deliver(t, [requestId |-> requestId, redirectResponse |-> redirectResponse,
                   request |-> request],
               "requestWillBeSent", "init")

\* the request-initiated of a transport id that is requested once
RequestWillBeSentOnce(t, requestId) ==
    /\ HopsOf(closure[t], requestId) = 0
    /\ RequestWillBeSent(t, requestId, FALSE, PlainRequest)

\* tracker:133-139
RequestWillBeSentExtraInfo(t, requestId, headersTextBytes) ==
    /\ t \in SubscribedSet
    /\ Deliver(t, [requestId |-> requestId, headersTextBytes |-> headersTextBytes],
               "requestWillBeSentExtraInfo", "mid")

\* tracker:141-148
ResponseReceived(t, requestId, response) ==
    /\ t \in SubscribedSet
    /\ Deliver(t, [requestId |-> requestId, response |-> response],
               "responseReceived", "mid")

\* tracker:150-155
DataReceived(t, requestId, encodedDataLength) ==
    /\ t \in SubscribedSet
    /\ LET metricId == ActiveOf(closure[t].activeRequestId, requestId) IN
       metricId \in DOMAIN closure[t].metrics =>
           closure[t].metrics[metricId].responseBytes + encodedDataLength
               <= MaxResponseBytes
    /\ Deliver(t, [requestId |-> requestId, encodedDataLength |-> encodedDataLength],
               "dataReceived", "mid")

\* tracker:157-166
LoadingFinished(t, requestId, encodedDataLength) ==
    /\ t \in SubscribedSet
    /\ Deliver(t, [requestId |-> requestId, encodedDataLength |-> encodedDataLength],
               "loadingFinished", "finished")

\* tracker:168-172
LoadingFailed(t, requestId) ==
    /\ t \in SubscribedSet
    /\ Deliver(t, [requestId |-> requestId], "loadingFailed", "failed")

\* a setJobContext that moves the open metrics to the new job
SetJobContextMovesOpen(caller, jobId) ==
    /\ pc[caller] = "returned"
    /\ result[caller] # NoTracker
    /\ closure' = [closure EXCEPT ![result[caller]] =
                      [@ EXCEPT !.currentJobId = jobId,
                                !.metrics = [id \in DOMAIN @ |-> [@[id] EXCEPT !.jobId = jobId]]]]
    /\ everSet' = [everSet EXCEPT ![result[caller]] = TRUE]
    /\ alone' = [alone EXCEPT ![result[caller]] =
                    [r \in RequestIds |-> [@[r] EXCEPT !.cl.currentJobId = jobId]]]
    /\ op' = [name |-> "setJobContext", tracker |-> result[caller], jobId |-> jobId]
    /\ UNCHANGED <<aggVars, attachVars, finalized, hist>>

\* tracker:174-178: the caller uses the handle its call returned
SetJobContext(caller, jobId) ==
    /\ pc[caller] = "returned"
    /\ result[caller] # NoTracker
    /\ closure' = [closure EXCEPT ![result[caller]].currentJobId = jobId]
    /\ everSet' = [everSet EXCEPT ![result[caller]] = TRUE]
    /\ alone' = [alone EXCEPT ![result[caller]] =
                    [r \in RequestIds |-> [@[r] EXCEPT !.cl.currentJobId = jobId]]]
    /\ op' = [name |-> "setJobContext", tracker |-> result[caller], jobId |-> jobId]
    /\ UNCHANGED <<aggVars, attachVars, finalized, hist>>

\* tracker:70-72: neither a page nor an engine with a CDP channel
getOrCreateReturnsNull(supported) == ~supported

\* tracker:66-77, up to the await of attachCdpClient. supported: the page is
\* given and the engine is playwright or puppeteer.
GetOrCreateBandwidthTracker(caller, supported) ==
    /\ pc[caller] \in {"idle", "returned", "failed"}
    /\ attachCalls < MaxAttachCalls
    /\ attachCalls' = attachCalls + 1
    /\ IF getOrCreateReturnsNull(supported)
       THEN /\ pc' = [pc EXCEPT ![caller] = "returned"]
            /\ result' = [result EXCEPT ![caller] = NoTracker]
       ELSE IF trackers # NoTracker
            THEN /\ pc' = [pc EXCEPT ![caller] = "returned"]
                 /\ result' = [result EXCEPT ![caller] = trackers]
            ELSE /\ pc' = [pc EXCEPT ![caller] = "attaching"]
                 /\ result' = [result EXCEPT ![caller] = NoTracker]
    /\ op' = [name |-> "getOrCreateBandwidthTracker", caller |-> caller,
              supported |-> supported, after |-> pc[caller]]
    /\ UNCHANGED <<aggVars, trackVars, trackers, subscribed>>

\* tracker:77-78: the CDP session was created, Network.enable is sent
AttachResolves(caller) ==
    /\ pc[caller] = "attaching"
    /\ pc' = [pc EXCEPT ![caller] = "enabling"]
    /\ op' = [name |-> "attachResolves", caller |-> caller]
    /\ UNCHANGED <<aggVars, trackVars, trackers, result, subscribed, attachCalls>>

\* tracker:77: creating the CDP session failed, the call rejects
AttachRejects(caller) ==
    /\ pc[caller] = "attaching"
    /\ pc' = [pc EXCEPT ![caller] = "failed"]
    /\ op' = [name |-> "attachRejects", caller |-> caller]
    /\ UNCHANGED <<aggVars, trackVars, trackers, result, subscribed, attachCalls>>

\* tracker:78-181: Network.enable succeeded; the closure is created, the six
\* handlers are registered, the handle is memoized and returned
EnableResolves(caller) ==
    /\ pc[caller] = "enabling"
    /\ pc' = [pc EXCEPT ![caller] = "returned"]
    /\ closure' = [closure EXCEPT ![caller] = NewClosure(caller)]
    /\ alone' = [alone EXCEPT ![caller] = NewAlone(caller)]
    /\ subscribed' = Append(subscribed, caller)
    /\ trackers' = caller
    /\ result' = [result EXCEPT ![caller] = caller]
    /\ op' = [name |-> "enableResolves", caller |-> caller]
    /\ UNCHANGED <<aggVars, finalized, hist, everSet, attachCalls>>

\* a call that memoizes its handle before Network.enable has succeeded
EnableRejectsKeepsMemo(caller) ==
    /\ pc[caller] = "enabling"
    /\ pc' = [pc EXCEPT ![caller] = "failed"]
    /\ trackers' = caller
    /\ op' = [name |-> "enableRejects", caller |-> caller]
    /\ UNCHANGED <<aggVars, trackVars, result, subscribed, attachCalls>>

\* tracker:78: Network.enable failed, the call rejects
EnableRejects(caller) ==
    /\ pc[caller] = "enabling"
    /\ pc' = [pc EXCEPT ![caller] = "failed"]
    /\ op' = [name |-> "enableRejects", caller |-> caller]
    /\ UNCHANGED <<aggVars, trackVars, trackers, result, subscribed, attachCalls>>

\* tracker:36: no tracker exists for the page
InitNoTracker ==
    /\ attachCalls = 0
    /\ trackers = NoTracker
    /\ pc = [c \in Callers |-> "idle"]
    /\ result = [c \in Callers |-> NoTracker]
    /\ subscribed = <<>>
    /\ closure = [c \in Callers |-> NewClosure(c)]
    /\ finalized = <<>>
    /\ hist = [c \in Callers |-> [r \in RequestIds |-> NoHist]]
    /\ everSet = [c \in Callers |-> FALSE]
    /\ alone = [c \in Callers |-> NewAlone(c)]

\* tracker:66-182: caller c1's call has created and returned the page's tracker
InitOneTracker ==
    /\ attachCalls = 1
    /\ trackers = "c1"
    /\ pc = [c \in Callers |-> IF c = "c1" THEN "returned" ELSE "idle"]
    /\ result = [c \in Callers |-> IF c = "c1" THEN "c1" ELSE NoTracker]
    /\ subscribed = <<"c1">>
    /\ closure = [c \in Callers |-> NewClosure(c)]
    /\ finalized = <<>>
    /\ hist = [c \in Callers |-> [r \in RequestIds |-> NoHist]]
    /\ everSet = [c \in Callers |-> FALSE]
    /\ alone = [c \in Callers |-> NewAlone(c)]

\* Bandwidth.ts:21-23 and 32-41: the manager after construction
InitManager ==
    /\ pendingByJobId = <<>>
    /\ flushRunning = FALSE
    /\ inflight = <<>>
    /\ cycles = 0
    /\ accepted = [j \in JobIds |-> createEmptyDelta]
    /\ persisted = [j \in JobIds |-> createEmptyDelta]
    /\ handed = 0
    /\ owed = [j \in JobIds |-> NothingOwed]
    /\ records = 0
    /\ failures = 0
    /\ cycleFailed = FALSE
    /\ cycleRejected = FALSE

InitAgg == InitManager /\ InitNoTracker /\ op = [name |-> "init"]

NextAgg ==
    \/ \E metric \in DirectMetrics : RecordRequest(metric)
    \/ \E jobId \in JobIds : FlushJob(jobId)
    \/ FlushAll
    \/ FlushAllFinally
    \/ \E i \in 1..MaxPersistCalls : PersistResolves(i)
    \/ \E i \in 1..MaxPersistCalls, error \in RejectionValues : PersistRejects(i, error)

\* the manager alone, fed by direct recordRequest calls
SpecAgg == InitAgg /\ [][NextAgg]_vars

\* addJobTraffic call i throws while the persistence outage lasts
PersistRejectsInOutage(i, error) == failures < MaxFailures /\ PersistRejects(i, error)

\* what is recorded under the timer: a metric of each job and an empty one
LiveMetrics == {Metric("J1", 1, 2, 3), Metric("J2", 0, 1, 1), Metric("J1", 0, 0, 0)}

\* recordRequest called until recording stops
RecordRequestUntilStop(metric) == records < MaxLiveRecords /\ RecordRequest(metric)

NextLive ==
    \/ \E metric \in LiveMetrics : RecordRequestUntilStop(metric)
    \/ \E jobId \in JobIds : flushJob(jobId)
    \/ flushAll
    \/ FlushAllFinally
    \/ \E i \in 1..MaxRecords : PersistResolves(i)
    \/ \E i \in 1..MaxRecords, error \in RejectionValues : PersistRejectsInOutage(i, error)

\* the interval timer keeps calling flushAll (Bandwidth.ts:35-37), the finally
\* block runs once Promise.all has settled, and every addJobTraffic call returns
FairLive ==
    /\ WF_vars(flushAll)
    /\ WF_vars(FlushAllFinally)
    /\ \A i \in 1..MaxRecords :
          WF_vars(PersistResolves(i)
                    \/ \E error \in RejectionValues : PersistRejectsInOutage(i, error))

\* the manager under its timer: recording stops after MaxLiveRecords metrics and
\* persistence stops failing after MaxFailures failures
SpecLive == InitAgg /\ [][NextLive]_vars /\ FairLive

InitTrack == InitManager /\ InitOneTracker /\ op = [name |-> "init"]

NextTrack ==
    \/ \E jobId \in {"J1", EmptyJob} : SetJobContext("c1", jobId)
    \/ \E r \in ChainIds, redirect \in BOOLEAN, request \in Requests :
          RequestWillBeSent("c1", r, redirect, request)
    \/ \E r \in ChainIds, n \in HeadersTextBytes : RequestWillBeSentExtraInfo("c1", r, n)
    \/ \E r \in ChainIds, response \in Responses : ResponseReceived("c1", r, response)
    \/ \E r \in ChainIds, n \in DataLengths : DataReceived("c1", r, n)
    \/ \E r \in ChainIds, n \in FinishedLengths : LoadingFinished("c1", r, n)
    \/ \E r \in ChainIds : LoadingFailed("c1", r)

\* tracker:174-178: the tracker of caller c1 after setJobContext("J1")
InitOneTrackerWithJob ==
    /\ attachCalls = 1
    /\ trackers = "c1"
    /\ pc = [c \in Callers |-> IF c = "c1" THEN "returned" ELSE "idle"]
    /\ result = [c \in Callers |-> IF c = "c1" THEN "c1" ELSE NoTracker]
    /\ subscribed = <<"c1">>
    /\ closure = [c \in Callers |->
                    IF c = "c1"
                    THEN [NewClosure(c) EXCEPT !.currentJobId = "J1"]
                    ELSE NewClosure(c)]
    /\ finalized = <<>>
    /\ hist = [c \in Callers |-> [r \in RequestIds |-> NoHist]]
    /\ everSet = [c \in Callers |-> c = "c1"]
    /\ alone = [c \in Callers |->
                  IF c = "c1"
                  THEN [r \in RequestIds |->
                          [cl |-> [NewClosure(c) EXCEPT !.currentJobId = "J1"],
                           final |-> <<>>]]
                  ELSE NewAlone(c)]

InitIds == InitManager /\ InitOneTrackerWithJob /\ op = [name |-> "init"]

NextIds ==
    \/ \E redirect \in BOOLEAN : RequestWillBeSent("c1", "r1", redirect, PlainRequest)
    \/ RequestWillBeSentOnce("c1", "r2")
    \/ \E r \in RequestIds : DataReceived("c1", r, 5)
    \/ \E r \in RequestIds : LoadingFinished("c1", r, 7)
    \/ \E r \in RequestIds : LoadingFailed("c1", r)

\* one tracker with a fixed job context, fed the interleaved events of two
\* transport ids: r1 with its redirects and r2, requested once
SpecIds == InitIds /\ [][NextIds]_vars

NextJobs ==
    \/ \E jobId \in JobIds : SetJobContext("c1", jobId)
    \/ \E redirect \in BOOLEAN : RequestWillBeSent("c1", "r1", redirect, PlainRequest)
    \/ DataReceived("c1", "r1", 5)
    \/ LoadingFinished("c1", "r1", 7)
    \/ LoadingFailed("c1", "r1")

\* one tracker whose session is switched between two jobs while a request loads
SpecJobs == InitTrack /\ [][NextJobs]_vars

NextTrackAgg ==
    \/ SetJobContext("c1", "J1")
    \/ RequestWillBeSent("c1", "r1", FALSE, BrokenRequest)
    \/ RequestWillBeSent("c1", "r1", TRUE, PlainRequest)
    \/ DataReceived("c1", "r1", 5)
    \/ LoadingFinished("c1", "r1", 7)
    \/ FlushAll
    \/ FlushAllFinally
    \/ \E i \in 1..MaxPersistCalls : PersistResolves(i)
    \/ \E i \in 1..MaxPersistCalls, error \in RejectionValues : PersistRejects(i, error)

\* the manager fed by one tracker only, with flushes and persistence results
SpecTrackAgg == InitTrack /\ [][NextTrackAgg]_vars

\* one attached tracker fed by the page's network events, recording into the manager
SpecTrack == InitTrack /\ [][NextTrack]_vars

NextAttach ==
    \/ \E c \in Callers, supported \in BOOLEAN : GetOrCreateBandwidthTracker(c, supported)
    \/ \E c \in Callers : AttachResolves(c)
    \/ \E c \in Callers : AttachRejects(c)
    \/ \E c \in Callers : EnableResolves(c)
    \/ \E c \in Callers : EnableRejects(c)
    \/ \E c \in Callers : SetJobContext(c, "J1")
    \/ \E t \in Callers : RequestWillBeSentOnce(t, "r1")
    \/ \E t \in Callers : DataReceived(t, "r1", 5)
    \/ \E t \in Callers : LoadingFinished(t, "r1", 0)

\* callers attaching trackers to the one page while it loads a request
SpecAttach == InitAgg /\ [][NextAttach]_vars

---------------------------------------------------------------------------
(* Properties of the manager                                               *)

\* the deltas of the addJobTraffic calls in flight for jobId, summed
RECURSIVE InflightTotal(_, _)
InflightTotal(calls, jobId) ==
    IF calls = <<>>
    THEN createEmptyDelta
    ELSE IF Head(calls).jobId = jobId
         THEN AddDelta(Head(calls).delta, InflightTotal(Tail(calls), jobId))
         ELSE InflightTotal(Tail(calls), jobId)

DeltaGeq(a, b) ==
    /\ a.totalBytes >= b.totalBytes
    /\ a.requestBytes >= b.requestBytes
    /\ a.responseBytes >= b.responseBytes
    /\ a.requestCount >= b.requestCount

\* the calls a step started: the tail of inflight' behind what was in flight
StartedCalls == {inflight'[k] : k \in (Len(inflight) + 1)..Len(inflight')}

\* C1: for every job, what recordRequest accepted equals what was persisted plus
\* the live pending delta plus the deltas held by persist calls in flight, in
\* every reachable state of every interleaving of recording, flushing and
\* persistence results.
C1_Conservation ==
    \A j \in JobIds :
        accepted[j] = AddDelta(AddDelta(persisted[j], MapGetOrEmpty(pendingByJobId, j)),
                               InflightTotal(inflight, j))

\* C1 witness: a job with persisted usage, a persist call in flight and usage
\* recorded behind that call, all at once.
C1_Witness ==
    \E j \in JobIds :
        /\ persisted[j].requestCount > 0
        /\ InflightTotal(inflight, j).requestCount > 0
        /\ MapHas(pendingByJobId, j)

\* a failed persist adds the call's delta to the job's live pending delta and
\* touches no other job
MergeOnFailure ==
    op'.name = "persistRejects" =>
        LET call == inflight[op'.i] IN
        /\ MapHas(pendingByJobId', call.jobId)
        /\ MapGetOrEmpty(pendingByJobId', call.jobId)
              = AddDelta(MapGetOrEmpty(pendingByJobId, call.jobId), call.delta)
        /\ \A j \in JobIds \ {call.jobId} :
              /\ MapHas(pendingByJobId', j) = MapHas(pendingByJobId, j)
              /\ MapGetOrEmpty(pendingByJobId', j) = MapGetOrEmpty(pendingByJobId, j)

\* the first flush of the job that succeeds after a failure, among the flushes
\* started after it, persists at least the failed delta
NextSuccessCoversOwed ==
    op'.name = "persistResolves" =>
        LET call == inflight[op'.i] IN
        (owed[call.jobId].active /\ op'.i > owed[call.jobId].before)
            => DeltaGeq(call.delta, owed[call.jobId].delta)

\* until the job is drained again, the failed delta and all recorded since sit
\* in the job's live pending delta
OwedStaysPending ==
    \A j \in JobIds :
        (owed[j].active /\ ~owed[j].drained) =>
            /\ MapHas(pendingByJobId, j)
            /\ DeltaGeq(MapGetOrEmpty(pendingByJobId, j), owed[j].delta)

\* the first flush that drains the job after the failure hands all of it to
\* addJobTraffic in one call
FirstDrainHandsOwed ==
    \A j \in JobIds :
        (owed[j].active /\ ~owed[j].drained /\ owed'[j].active /\ owed'[j].drained) =>
            \E call \in StartedCalls :
                /\ call.jobId = j
                /\ call.delta = MapGetOrEmpty(pendingByJobId, j)
                /\ DeltaGeq(call.delta, owed[j].delta)

\* a successful call persists exactly its delta
ResolvePersistsCall ==
    op'.name = "persistResolves" =>
        LET call == inflight[op'.i] IN
        persisted'[call.jobId] = AddDelta(persisted[call.jobId], call.delta)

\* C4 as stated: a failed delta is merged into the live pending delta, and the
\* next flush of the job whose persistence succeeds persists at least that delta.
C4_Original == [][MergeOnFailure /\ NextSuccessCoversOwed]_vars

\* C4 amended: a failed delta is merged into the live pending delta (added, not
\* overwritten), stays there with everything recorded since until the job is
\* drained again, and the first flush that drains the job after the failure
\* hands at least all of it to persistence, which stores it if that call succeeds.
C4_MergeAndRetry ==
    /\ []OwedStaysPending
    /\ [][MergeOnFailure /\ FirstDrainHandsOwed /\ ResolvePersistsCall]_vars

\* C4 witness: a persist call just failed and its delta was merged with usage
\* recorded while the call was in flight.
C4_Witness ==
    /\ op.name = "persistRejects"
    /\ \E j \in JobIds :
        /\ owed[j].active
        /\ MapHas(pendingByJobId, j)
        /\ MapGetOrEmpty(pendingByJobId, j).requestCount > owed[j].delta.requestCount

\* the effect of one recordRequest call on the pending map
RecordEffect ==
    op'.name = "recordRequest" =>
        LET m == op'.metric IN
        IF m.jobId = EmptyJob \/ m.totalBytes <= 0
        THEN pendingByJobId' = pendingByJobId
        ELSE /\ MapHas(pendingByJobId', m.jobId)
             /\ LET old == MapGetOrEmpty(pendingByJobId, m.jobId)
                    new == MapGetOrEmpty(pendingByJobId', m.jobId) IN
                /\ new.totalBytes = old.totalBytes + m.totalBytes
                /\ new.requestBytes = old.requestBytes + m.requestBytes
                /\ new.responseBytes = old.responseBytes + m.responseBytes
                /\ new.requestCount = old.requestCount + 1
             /\ \A j \in JobIds \ {m.jobId} :
                /\ MapHas(pendingByJobId', j) = MapHas(pendingByJobId, j)
                /\ MapGetOrEmpty(pendingByJobId', j) = MapGetOrEmpty(pendingByJobId, j)

\* with no flush so far, each job's pending delta is the sum of its accepted metrics
PendingIsSumOfAccepted ==
    handed = 0 =>
        \A j \in JobIds :
            /\ MapGetOrEmpty(pendingByJobId, j) = accepted[j]
            /\ MapHas(pendingByJobId, j) = (accepted[j].requestCount > 0)

\* C8: recordRequest with an empty jobId or totalBytes <= 0 leaves the pending
\* map unchanged; any other call adds the metric's three byte counts and 1 to
\* requestCount of the metric's job only, so without a flush each job's pending
\* delta is the exact sum of its own accepted metrics.
C8_RecordRequest == []PendingIsSumOfAccepted /\ [][RecordEffect]_vars

\* C8 witness: three metrics recorded across both jobs, none flushed.
C8_Witness ==
    /\ op.name = "recordRequest"
    /\ handed = 0
    /\ MapHas(pendingByJobId, "J1") /\ MapHas(pendingByJobId, "J2")
    /\ \E j \in JobIds : MapGetOrEmpty(pendingByJobId, j).requestCount >= 2

\* a flushAll cycle runs from its drain until its finally block has run and
\* its persist calls have returned
CycleRunning == flushRunning \/ \E i \in 1..Len(inflight) : inflight[i].cycle # 0

\* the persist calls of flushAll cycles in flight all belong to one cycle
OneCycleInFlight ==
    \A i, k \in 1..Len(inflight) :
        (inflight[i].cycle # 0 /\ inflight[k].cycle # 0)
            => inflight[i].cycle = inflight[k].cycle

\* a flushAll that finds a cycle running drains nothing and starts no call
ReentrantFlushAllIsNoop ==
    (op'.name = "flushAll" /\ CycleRunning) =>
        /\ pendingByJobId' = pendingByJobId
        /\ inflight' = inflight
        /\ handed' = handed
        /\ cycles' = cycles

\* C9: at most one flushAll cycle is in flight, and a flushAll invoked while a
\* cycle runs neither drains the pending map nor calls addJobTraffic.
C9_SingleCycle == []OneCycleInFlight /\ [][ReentrantFlushAllIsNoop]_vars

\* flushJob hands a job's pending delta to addJobTraffic whatever else is in flight
FlushJobNotBlocked ==
    (op'.name = "flushJob" /\ MapHas(pendingByJobId, op'.jobId)) =>
        /\ StartedCalls = {[jobId |-> op'.jobId,
                            delta |-> MapGetOrEmpty(pendingByJobId, op'.jobId),
                            cycle |-> 0]}
        /\ ~MapHas(pendingByJobId', op'.jobId)

\* a flushAll cycle starts the calls of all its jobs in the step that drains them
CycleStartsAllCalls ==
    (op'.name = "flushAll" /\ ~flushRunning) =>
        /\ \A j \in MapKeys(pendingByJobId) :
              \E call \in StartedCalls :
                  call.jobId = j /\ call.delta = MapGetOrEmpty(pendingByJobId, j)
        /\ Len(inflight') = Len(inflight) + Len(pendingByJobId)

\* C10: while one job's persist call has not returned, the delta of any other job
\* is still handed to addJobTraffic: in the same step when both are drained by
\* one flushAll cycle, and by flushJob when it was recorded after the cycle started.
C10_NoBlocking == [][FlushJobNotBlocked /\ CycleStartsAllCalls]_vars

\* C10 witness: a cycle's call for one job is still in flight, and behind it a
\* call for another job, started by a later flushJob.
C10_Witness ==
    \E i, k \in 1..Len(inflight) :
        /\ i < k
        /\ inflight[i].cycle # 0
        /\ inflight[k].cycle = 0
        /\ inflight[i].jobId # inflight[k].jobId

---------------------------------------------------------------------------
(* Properties of the tracker                                               *)

\* what tracker t finalized for transport id r, in order
FinalOf(t, r) == SelectSeq(finalized, LAMBDA e : e.id[1] = t /\ e.id[2] = r)

\* what the step finalized
NewFinal == SubSeq(finalized', Len(finalized) + 1, Len(finalized'))

\* the open metrics tracker t holds for transport id r
OpenOf(t, r) == {id \in DOMAIN closure[t].metrics : id[2] = r}

PendingCount(pending, j) == MapGetOrEmpty(pending, j).requestCount

\* a request-initiated, any header-detail, response and data events, then
\* loading-finished: one metric, hop 0, not failed, totalBytes the sum
SimpleRequestOnce ==
    \A t \in Callers, r \in RequestIds :
        /\ (hist[t][r].phase = "done" /\ hist[t][r].redirects = 0) =>
              /\ Len(FinalOf(t, r)) = 1
              /\ FinalOf(t, r)[1].id = <<t, r, 0>>
              /\ FinalOf(t, r)[1].failed = FALSE
              /\ FinalOf(t, r)[1].totalOk
        /\ (hist[t][r].phase = "open" /\ hist[t][r].redirects = 0) =>
              Len(FinalOf(t, r)) = 0

\* the loading-finished that ends the request finalizes one metric of the
\* tracker that handles it and adds 1 to the pending requestCount of its job
\* iff its totalBytes > 0
FinishCountsOnce ==
    op'.name = "loadingFinished" =>
        /\ hist[op'.tracker][op'.requestId].phase = "open" => Len(NewFinal) = 1
        /\ \A k \in 1..Len(NewFinal) : NewFinal[k].id[1] = op'.tracker
        /\ \A j \in JobIds :
              PendingCount(pendingByJobId', j)
                  = PendingCount(pendingByJobId, j)
                    + Cardinality({k \in 1..Len(NewFinal) :
                                      NewFinal[k].jobId = j /\ NewFinal[k].positive})

\* C2: one non-redirected request that completes (request-initiated with a job
\* context, optional header-detail, response and data events, loading-finished)
\* finalizes exactly one metric, with failed = false and totalBytes =
\* requestBytes + responseBytes, and adds exactly 1 to the job's pending
\* requestCount when totalBytes > 0.
C2_ExactlyOnce == []SimpleRequestOnce /\ [][FinishCountsOnce]_vars

\* C2 witness: request-initiated, header-detail (40 bytes), response, one data
\* event (5 bytes), loading-finished: J1's pending delta is that one request.
C2_Witness ==
    /\ op.name = "loadingFinished"
    /\ hist["c1"]["r1"].phase = "done" /\ hist["c1"]["r1"].redirects = 0
    /\ MapGetOrEmpty(pendingByJobId, "J1")
          = [totalBytes |-> 45, requestBytes |-> 40, responseBytes |-> 5, requestCount |-> 1]

\* C3: a transport id that goes through N redirects and then loading-finished
\* has exactly N+1 finalized metrics, with hop indices 0..N in finalization order
\* and failed = false; while the chain is open the hops before the current one
\* are finalized and the current hop is the only open metric of the transport id.
C3_RedirectChain ==
    \A t \in Callers, r \in RequestIds :
        LET h == hist[t][r]
            f == FinalOf(t, r)
        IN  /\ h.phase = "done" =>
                  /\ Len(f) = h.redirects + 1
                  /\ \A i \in 1..Len(f) : f[i].id = <<t, r, i - 1>> /\ ~f[i].failed
            /\ h.phase = "open" =>
                  /\ Len(f) = h.redirects
                  /\ \A i \in 1..Len(f) : f[i].id = <<t, r, i - 1>> /\ ~f[i].failed
                  /\ OpenOf(t, r) = {<<t, r, h.redirects>>}
                  /\ ActiveOf(closure[t].activeRequestId, r) = <<t, r, h.redirects>>

\* C3 witness: a chain with at least one redirect has finished.
C3_Witness ==
    /\ hist["c1"]["r1"].phase = "done"
    /\ hist["c1"]["r1"].redirects >= 1
    /\ Len(FinalOf("c1", "r1")) = hist["c1"]["r1"].redirects + 1

\* C5: all calls of getOrCreateBandwidthTracker for the page that return a
\* tracker return the same one, at most one set of handlers is registered, and
\* no hop of the page's traffic is recorded to the manager more than once.
C5_Memoized ==
    /\ \A a, b \in Callers :
          (pc[a] = "returned" /\ pc[b] = "returned"
              /\ result[a] # NoTracker /\ result[b] # NoTracker) => result[a] = result[b]
    /\ Len(subscribed) <= 1
    /\ \A i, k \in 1..Len(finalized) :
          i # k => <<finalized[i].id[2], finalized[i].id[3]>>
                       # <<finalized[k].id[2], finalized[k].id[3]>>

\* C6: events a tracker sees before the first setJobContext create and finalize
\* nothing, consume no hop index and record nothing; and a transport id whose
\* request-initiated was dropped gets no metric from later events either, also
\* after a job context is set.
C6_NoJobNoMetric ==
    \A t \in Callers :
        /\ ~everSet[t] =>
              /\ DOMAIN closure[t].metrics = {}
              /\ DOMAIN closure[t].activeRequestId = {}
              /\ DOMAIN closure[t].hopIndexByRequestId = {}
              /\ \A i \in 1..Len(finalized) : finalized[i].id[1] # t
        /\ \A r \in RequestIds :
              hist[t][r].phase = "dropped" =>
                  /\ Len(FinalOf(t, r)) = 0
                  /\ OpenOf(t, r) = {}
                  /\ r \notin DOMAIN closure[t].activeRequestId
                  /\ r \notin DOMAIN closure[t].hopIndexByRequestId

\* C6 witness: the request-initiated of r1 was dropped for lack of a job context;
\* a job context is set now and loading-finished of r1 was just handled.
C6_Witness ==
    /\ op.name = "loadingFinished" /\ op.requestId = "r1"
    /\ hist["c1"]["r1"].phase = "dropped"
    /\ everSet["c1"]
    /\ Truthy(closure["c1"].currentJobId)

\* no metric id is passed to recordRequest twice
NoDuplicateFinal ==
    \A i, k \in 1..Len(finalized) : i # k => finalized[i].id # finalized[k].id

\* a loading-finished or loading-failed for a transport id without an open hop
\* (already finalized, or never opened) changes nothing
StrayEndIsNoop ==
    (op'.name \in {"loadingFinished", "loadingFailed"}
        /\ ~hist[op'.tracker][op'.requestId].hopOpen) =>
            /\ closure' = closure
            /\ pendingByJobId' = pendingByJobId
            /\ finalized' = finalized

\* C7: once a hop is finalized, a later loading-finished or loading-failed for
\* its transport id (no new request-initiated in between) leaves the tracker and
\* the pending deltas unchanged and records nothing; no metric id is ever
\* recorded twice.
C7_IdempotentFinalize == []NoDuplicateFinal /\ [][StrayEndIsNoop]_vars

\* C7 witness: loading-finished finalized the hop, then a stray loading-failed
\* for the same transport id was handled; still one finalized metric.
C7_Witness ==
    /\ op.name = "loadingFailed" /\ op.requestId = "r1"
    /\ hist["c1"]["r1"].phase = "done"
    /\ Len(finalized) = 1

---------------------------------------------------------------------------
(* Further properties of the manager                                       *)

AllPersisted ==
    /\ pendingByJobId = <<>>
    /\ \A j \in JobIds : persisted[j] = accepted[j]

\* C11: with flushAll called again and again, every addJobTraffic call returning,
\* finitely many failures and finitely many recorded metrics, the pending map
\* eventually is and stays empty and for every job the persisted total equals
\* the total recordRequest accepted.
C11_EventuallyPersisted == <>[]AllPersisted

\* C11 witness: after at least one failed addJobTraffic call, usage of both jobs
\* is persisted in full and nothing is pending or in flight.
C11_Witness ==
    /\ failures >= 1
    /\ AllPersisted
    /\ inflight = <<>>
    /\ \A j \in JobIds : persisted[j].requestCount >= 1

\* the promise of persist, and with it the promise of flushJob or flushAll that
\* awaits it, is never rejected
NoErrorReachesCaller ==
    op.name \in {"persistResolves", "persistRejects", "flushAllFinally"} =>
        op.outcome = "fulfilled"

\* a failed call leaves every other call in flight, persists nothing and touches
\* the pending delta of no other job
FailureLeavesOthers ==
    op'.name = "persistRejects" =>
        LET call == inflight[op'.i] IN
        /\ inflight' = RemoveAt(inflight, op'.i)
        /\ persisted' = persisted
        /\ \A j \in JobIds \ {call.jobId} :
              /\ MapHas(pendingByJobId', j) = MapHas(pendingByJobId, j)
              /\ MapGetOrEmpty(pendingByJobId', j) = MapGetOrEmpty(pendingByJobId, j)

\* a call of the cycle that succeeds after another call of the cycle failed
\* persists its delta and puts nothing back into the pending map
SuccessAfterSiblingFailure ==
    (op'.name = "persistResolves" /\ cycleFailed /\ inflight[op'.i].cycle # 0) =>
        LET call == inflight[op'.i] IN
        /\ persisted'[call.jobId] = AddDelta(persisted[call.jobId], call.delta)
        /\ pendingByJobId' = pendingByJobId

\* the calls of a cycle in flight are those of its drained jobs that have not
\* returned: one call per job
OneCallPerDrainedJob ==
    \A i, k \in 1..Len(inflight) :
        (i # k /\ inflight[i].cycle # 0 /\ inflight[k].cycle # 0)
            => inflight[i].jobId # inflight[k].jobId

\* C12: a failing addJobTraffic call never makes flushJob or flushAll fail; the
\* other jobs drained in the same flushAll cycle stay handed to addJobTraffic,
\* and each of them whose own call succeeds is persisted and not put back into
\* the pending map.
C12_FailuresIsolated ==
    /\ [](NoErrorReachesCaller /\ OneCallPerDrainedJob)
    /\ [][FailureLeavesOthers /\ SuccessAfterSiblingFailure]_vars

\* the guard is set only while a cycle is between its drain and its finally
\* block: a cycle was started, and it awaits its calls in flight or its finally
\* block is about to run
GuardMeansCycle ==
    flushRunning =>
        /\ cycles >= 1
        /\ (\E i \in 1..Len(inflight) : inflight[i].cycle = cycles)
              \/ cycleSettled(inflight, cycles, cycleRejected)
        /\ \A i \in 1..Len(inflight) : inflight[i].cycle <= cycles

\* the guard is set by a flushAll that finds it clear and the pending map not
\* empty, which starts a new cycle and drains the map; by nothing else, and it
\* is cleared by the finally block only
GuardSetByDrainOnly ==
    /\ (op'.name = "flushAll" /\ ~flushRunning /\ Len(pendingByJobId) > 0) =>
          (flushRunning' /\ cycles' = cycles + 1 /\ pendingByJobId' = <<>>)
    /\ (op'.name = "flushAll" /\ Len(pendingByJobId) = 0) =>
          (flushRunning' = flushRunning /\ cycles' = cycles)
    /\ (flushRunning' /\ ~flushRunning) => op'.name = "flushAll"
    /\ (flushRunning /\ ~flushRunning') => op'.name = "flushAllFinally"

\* C17: flushRunning is set only from the drain of a flushAll cycle to its
\* finally block; once the cycle's persist calls have all returned, with success
\* or failure, it is cleared again, and the next flushAll that finds pending
\* usage starts a new cycle; a flushAll on an empty pending map does not set it.
C17_GuardReleased ==
    /\ []GuardMeansCycle
    /\ [][GuardSetByDrainOnly]_vars
    /\ (flushRunning ~> ~flushRunning)

\* C17 witness: after a cycle in which a call failed, a second cycle has just
\* been started by flushAll.
C17_Witness ==
    /\ op.name = "flushAll"
    /\ flushRunning
    /\ cycles = 2
    /\ failures >= 1
    /\ Len(inflight) >= 1

---------------------------------------------------------------------------
(* Properties of the attachment                                            *)

\* a call whose handshake fails rejects and changes neither the memo table, nor
\* the registered handlers, nor any tracker
HandshakeFailureChangesNothing ==
    op'.name \in {"attachRejects", "enableRejects"} =>
        /\ pc'[op'.caller] = "failed"
        /\ trackers' = trackers
        /\ subscribed' = subscribed
        /\ closure' = closure
        /\ result' = result

\* a caller whose call failed has no handlers registered and is not memoized,
\* and what is memoized has its handlers registered
NothingBrokenInstalled ==
    /\ \A c \in Callers :
          pc[c] \in {"attaching", "enabling", "failed"} =>
              (c \notin SubscribedSet /\ trackers # c)
    /\ trackers # NoTracker => trackers \in SubscribedSet

\* the call after a failed one attaches afresh, unless a tracker was memoized
\* by another call in the meantime
RetryAttachesAfresh ==
    (op'.name = "getOrCreateBandwidthTracker" /\ op'.after = "failed" /\ op'.supported) =>
        IF trackers = NoTracker
        THEN pc'[op'.caller] = "attaching"
        ELSE pc'[op'.caller] = "returned" /\ result'[op'.caller] = trackers

\* C13: when creating the CDP session or Network.enable fails, the call of
\* getOrCreateBandwidthTracker fails, no handler is registered and nothing is
\* memoized for the page, so a later call for the page attaches afresh.
C13_HandshakeFailure ==
    /\ []NothingBrokenInstalled
    /\ [][HandshakeFailureChangesNothing /\ RetryAttachesAfresh]_vars

\* C13 witness: a caller whose call failed has called again and is attaching,
\* with nothing memoized and no handler registered.
C13_Witness ==
    /\ op.name = "getOrCreateBandwidthTracker" /\ op.after = "failed"
    /\ pc[op.caller] = "attaching"
    /\ trackers = NoTracker
    /\ subscribed = <<>>

---------------------------------------------------------------------------
(* Further properties of the tracker                                       *)

\* what the step finalized for tracker t
NewFinalOf(t) == SelectSeq(NewFinal, LAMBDA e : e.id[1] = t)

\* loading-finished of an open hop finalizes it with the summed data-received
\* bytes, or with the event's own total when that sum is zero
FinishedResponseBytes ==
    op'.name = "loadingFinished" =>
        LET h == hist[op'.tracker][op'.requestId] IN
        h.hopOpen =>
            /\ Len(NewFinalOf(op'.tracker)) = 1
            /\ NewFinalOf(op'.tracker)[1].responseBytes
                  = IF h.dataSum # 0 THEN h.dataSum ELSE op'.encodedDataLength

\* C14: the hop finalized by loading-finished has responseBytes equal to the sum
\* of the byte lengths of its data-received events when that sum is not zero,
\* and equal to the byte length the loading-finished event reports when it is;
\* the event's length is never added to a non-zero sum.
C14_ResponseBytes == [][FinishedResponseBytes]_vars

\* C14 witness: a hop with two data-received events of 5 bytes was finalized by
\* a loading-finished event reporting 7 bytes: its responseBytes are 10.
C14_Witness ==
    /\ op.name = "loadingFinished" /\ op.encodedDataLength = 7
    /\ hist["c1"]["r1"].dataSum = 10
    /\ Len(finalized) >= 1
    /\ finalized[Len(finalized)].responseBytes = 10

\* C14 second witness: without data-received bytes the event's 7 bytes are taken
C14_WitnessFallback ==
    /\ op.name = "loadingFinished" /\ op.encodedDataLength = 7
    /\ hist["c1"]["r1"].dataSum = 0
    /\ Len(finalized) >= 1
    /\ finalized[Len(finalized)].responseBytes = 7

\* loading-failed of a transport id with an active hop finalizes that hop as
\* failed with the bytes counted so far, records it once and clears the entry;
\* without an active hop the tracker does not change and nothing is recorded
FailedFinalizesHop ==
    op'.name = "loadingFailed" =>
        /\ \A t \in Callers \ {op'.tracker} : closure'[t] = closure[t]
        /\ Len(NewFinal) = Len(NewFinalOf(op'.tracker))
        /\ LET t == op'.tracker
               r == op'.requestId
               active == closure[t].activeRequestId
           IN  IF r \in DOMAIN active
                  THEN /\ Len(NewFinalOf(t)) = 1
                       /\ NewFinalOf(t)[1].id = active[r]
                       /\ NewFinalOf(t)[1].failed = TRUE
                       /\ NewFinalOf(t)[1].totalOk
                       /\ NewFinalOf(t)[1].responseBytes = hist[t][r].dataSum
                       /\ r \notin DOMAIN closure'[t].activeRequestId
                       /\ active[r] \notin DOMAIN closure'[t].metrics
                       /\ closure'[t].hopIndexByRequestId = closure[t].hopIndexByRequestId
                  ELSE /\ Len(NewFinalOf(t)) = 0
                       /\ closure'[t] = closure[t]
        /\ \A j \in JobIds :
              LET new == {k \in 1..Len(NewFinal) :
                             NewFinal[k].jobId = j /\ NewFinal[k].positive}
              IN  /\ PendingCount(pendingByJobId', j)
                        = PendingCount(pendingByJobId, j) + Cardinality(new)
                  /\ new = {} =>
                        MapGetOrEmpty(pendingByJobId', j) = MapGetOrEmpty(pendingByJobId, j)

\* C15: loading-failed for a transport id with an active hop finalizes exactly
\* that hop with failed = true and totalBytes = requestBytes + responseBytes as
\* accumulated so far, records it to the manager once and clears the transport
\* id's active-hop entry; for a transport id without an active hop it changes
\* nothing.
C15_LoadingFailed == [][FailedFinalizesHop]_vars

\* C15 witness: a hop that had received 5 bytes failed: it is recorded as failed
\* with those bytes, counted once for its job, and the tracker holds nothing.
C15_Witness ==
    /\ op.name = "loadingFailed"
    /\ Len(finalized) = 1
    /\ finalized[1].failed /\ finalized[1].positive /\ finalized[1].responseBytes = 5
    /\ MapGetOrEmpty(pendingByJobId, "J1").requestCount = 1
    /\ MapGetOrEmpty(pendingByJobId, "J1").responseBytes = 5
    /\ DOMAIN closure["c1"].activeRequestId = {}
    /\ DOMAIN closure["c1"].metrics = {}

\* an event of one transport id leaves the active hop, the next hop index and
\* the open metrics of every other transport id as they are
OtherIdsUntouched ==
    op'.name \in {"requestWillBeSent", "requestWillBeSentExtraInfo", "responseReceived",
                  "dataReceived", "loadingFinished", "loadingFailed"} =>
        \A t \in Callers, b \in RequestIds \ {op'.requestId} :
            /\ ActiveOf(closure'[t].activeRequestId, b) = ActiveOf(closure[t].activeRequestId, b)
            /\ (b \in DOMAIN closure'[t].activeRequestId) = (b \in DOMAIN closure[t].activeRequestId)
            /\ HopsOf(closure'[t], b) = HopsOf(closure[t], b)
            /\ {id \in DOMAIN closure'[t].metrics : id[2] = b} = OpenOf(t, b)
            /\ \A id \in OpenOf(t, b) : closure'[t].metrics[id] = closure[t].metrics[id]
            /\ \A k \in 1..Len(NewFinal) : NewFinal[k].id[2] # b

\* for every transport id, what the tracker holds and has finalized for it is
\* what a tracker holds and has finalized that was given its events only
SameAsAlone ==
    \A t \in SubscribedSet, r \in RequestIds :
        LET a == alone[t][r] IN
        /\ FinalOf(t, r) = a.final
        /\ ActiveOf(closure[t].activeRequestId, r) = ActiveOf(a.cl.activeRequestId, r)
        /\ HopsOf(closure[t], r) = HopsOf(a.cl, r)
        /\ OpenOf(t, r) = DOMAIN a.cl.metrics
        /\ \A id \in OpenOf(t, r) : closure[t].metrics[id] = a.cl.metrics[id]

\* C16: an event for one transport id never changes the active hop, next hop
\* index or open metrics of another, so under any interleaving of the events of
\* two transport ids (job context fixed) each transport id's finalized metrics
\* have the hop indices, byte counts and failed flags they have when its events
\* are processed without the other's in between.
C16_IdIndependence == []SameAsAlone /\ [][OtherIdsUntouched]_vars

\* C16 witness: the redirect chain of r1 and the failing request of r2 were
\* interleaved: r2 was finalized between the two hops of r1.
C16_Witness ==
    /\ Len(finalized) = 3
    /\ finalized[1].id = <<"c1", "r1", 0>>
    /\ finalized[2].id = <<"c1", "r2", 0>> /\ finalized[2].failed
    /\ finalized[3].id = <<"c1", "r1", 1>> /\ ~finalized[3].failed

\* a finalized metric carries the job context of its request-initiated event and
\* is added to the pending delta of that job and of no other
JobOfInitiation ==
    /\ \A k \in 1..Len(NewFinal) :
          NewFinal[k].jobId = hist[NewFinal[k].id[1]][NewFinal[k].id[2]].job
    /\ \A j \in JobIds :
          LET new == {k \in 1..Len(NewFinal) :
                         NewFinal[k].jobId = j /\ NewFinal[k].positive}
          IN  /\ PendingCount(pendingByJobId', j)
                    = PendingCount(pendingByJobId, j) + Cardinality(new)
              /\ new = {} =>
                    MapGetOrEmpty(pendingByJobId', j) = MapGetOrEmpty(pendingByJobId, j)

\* setJobContext changes the tracker's current job and nothing else
SetJobContextOnlySetsJob ==
    op'.name = "setJobContext" =>
        /\ closure' = [closure EXCEPT ![op'.tracker].currentJobId = op'.jobId]
        /\ pendingByJobId' = pendingByJobId
        /\ finalized' = finalized
        /\ inflight' = inflight

\* C18: a metric is accounted to the job context that was current when its
\* request-initiated event was handled, also when setJobContext has switched
\* the session to another job before the hop is finalized; setJobContext changes
\* no open metric, active hop, hop index or pending delta.
C18_Attribution == [][JobOfInitiation /\ SetJobContextOnlySetsJob]_vars

\* C18 witness: the request was initiated under J1, the session was switched to
\* J2, then the hop finished: it is recorded for J1 and J2 has nothing pending.
C18_Witness ==
    /\ op.name = "loadingFinished"
    /\ closure["c1"].currentJobId = "J2"
    /\ Len(finalized) = 1 /\ finalized[1].jobId = "J1" /\ finalized[1].positive
    /\ MapHas(pendingByJobId, "J1")
    /\ ~MapHas(pendingByJobId, "J2")

\* the open metrics of a tracker that are not the active hop of their transport id
Orphans(cl) == {id \in DOMAIN cl.metrics : ActiveOf(cl.activeRequestId, id[2]) # id}

\* every active-hop entry points to an open metric of its transport id
ActivePointsToOpen ==
    \A t \in Callers :
        \A r \in DOMAIN closure[t].activeRequestId :
            /\ closure[t].activeRequestId[r] \in DOMAIN closure[t].metrics
            /\ closure[t].activeRequestId[r][2] = r

\* every open metric is the active hop of its transport id
EveryOpenIsActive == \A t \in Callers : Orphans(closure[t]) = {}

\* C19 as stated: the active-hop map and the open-metrics map are in one-to-one
\* correspondence in every state, so no open metric is ever left unreachable.
C19_Original == ActivePointsToOpen /\ EveryOpenIsActive

\* the handler of the step accepts a request-initiated event
AcceptsInit(t) ==
    op'.name = "requestWillBeSent" /\ op'.tracker = t /\ Truthy(closure[t].currentJobId)

\* an open metric becomes unreachable in one way only: a request-initiated
\* without prior response, handled with a job context, for a transport id that
\* has an active hop; an unreachable metric stays open and is never finalized
OrphanOnlyByPlainReinit ==
    \A t \in SubscribedSet :
        LET active == closure[t].activeRequestId IN
        /\ Orphans(closure'[t])
              = Orphans(closure[t])
                \cup (IF AcceptsInit(t) /\ ~op'.redirectResponse
                         /\ op'.requestId \in DOMAIN active
                      THEN {active[op'.requestId]}
                      ELSE {})
        /\ \A k \in 1..Len(NewFinal) : NewFinal[k].id \notin Orphans(closure[t])

\* the active hop of a transport id is finalized by the next loading-finished or
\* loading-failed of the transport id, and by the next request-initiated that
\* carries a prior response and is handled with a job context
ActiveHopFinalizedByNext ==
    \A t \in SubscribedSet :
        LET active == closure[t].activeRequestId IN
        (((op'.name \in {"loadingFinished", "loadingFailed"} /\ op'.tracker = t)
              \/ (AcceptsInit(t) /\ op'.redirectResponse))
            /\ op'.requestId \in DOMAIN active) =>
                \E k \in 1..Len(NewFinal) : NewFinal[k].id = active[op'.requestId]

\* C19 amended: every active-hop entry points to an open metric, and the active
\* hop is finalized by the next loading-finished, loading-failed or redirect
\* request-initiated (handled with a job context) of its transport id; an open
\* metric that is not an active hop exists only after a request-initiated
\* without prior response arrived for a transport id with an active hop, and
\* such a metric stays open and is never finalized.
C19_NoOrphansButReinit ==
    /\ []ActivePointsToOpen
    /\ [][OrphanOnlyByPlainReinit /\ ActiveHopFinalizedByNext]_vars

\* C19 witness: a second request-initiated without prior response arrived for
\* r1 while hop 0 was open: hop 1 is active, hop 0 is open and unreachable.
C19_Witness ==
    /\ op.name = "requestWillBeSent" /\ ~op.redirectResponse
    /\ closure["c1"].activeRequestId = [r \in {"r1"} |-> <<"c1", "r1", 1>>]
    /\ Orphans(closure["c1"]) = {<<"c1", "r1", 0>>}
    /\ finalized = <<>>

---------------------------------------------------------------------------
(* Properties of the tracker and the manager together                      *)

WellFormed(delta) ==
    /\ delta.totalBytes > 0
    /\ delta.requestCount >= 1
    /\ delta.totalBytes = delta.requestBytes + delta.responseBytes

\* every pending delta and every delta held by a persist call in flight
PendingWellFormed ==
    /\ \A i \in 1..Len(pendingByJobId) : WellFormed(pendingByJobId[i].delta)
    /\ \A i \in 1..Len(inflight) : WellFormed(inflight[i].delta)

\* persist starts an addJobTraffic call for every delta it is given
NoDeltaSkipped ==
    (op'.name = "flushAll" /\ ~op'.skipped) =>
        /\ Len(inflight') = Len(inflight) + Len(pendingByJobId)
        /\ \A i \in 1..Len(pendingByJobId) :
              inflight'[Len(inflight) + i].delta = pendingByJobId[i].delta

\* C20: when all recorded metrics come from the tracker's finalizeHop, every
\* delta in the pending map and every delta held by a persist call in flight has
\* totalBytes > 0, requestCount >= 1 and totalBytes = requestBytes +
\* responseBytes, so the test of persist that skips deltas with totalBytes <= 0
\* never drops recorded usage.
C20_WellFormedDeltas == []PendingWellFormed /\ [][NoDeltaSkipped]_vars

\* C20 witness: a hop with no bytes at all was finalized and not recorded, a
\* persist call failed and its delta is pending again, merged with a later hop.
C20_Witness ==
    /\ \E k \in 1..Len(finalized) : ~finalized[k].positive
    /\ failures >= 1
    /\ MapHas(pendingByJobId, "J1")
    /\ accepted["J1"].requestCount >= 1

====
